---- MODULE Spec2Model ----
(***************************************************************************)
(* A model of the `valuables` crate: the type-erased carrier `Value`, the  *)
(* `Visitable` adapters of src/value.rs and the streaming visitor `Visit`  *)
(* with its orchestration helpers of src/visitor.rs.                       *)
(*                                                                         *)
(* A traversal is a depth-first walk.  The model keeps the Rust call stack *)
(* explicitly (`stack`), records every call made on the visitor (`calls`)  *)
(* and lets the visitor, which is the environment, answer Ok or Err to     *)
(* every call it implements itself.                                        *)
(***************************************************************************)
EXTENDS Integers, Sequences, FiniteSets, Bags, TLC

VARIABLES
    top,         \* the value handed to the top-level visit
    overridden,  \* the scalar methods the visitor overrides
    kvRecurse,   \* whether the visitor's visit_kv visits its key and value
    anyRevisit,  \* whether the visitor's visit_any visits the value it is given
    stack,       \* the call stack, innermost frame last
    ret,         \* the result just returned to the innermost frame
    calls        \* the calls made on the visitor, in order

vars == <<top, overridden, kvRecurse, anyRevisit, stack, ret, calls>>

(***************************************************************************)
(* Bounds of the model.                                                    *)
(***************************************************************************)
MaxLen == 3      \* longest sequence, set or map drawn for Init
MaxElem == 3     \* the elements of drawn containers are the integers 1..MaxElem
MaxNest == 2     \* longest sequence of containers drawn for Init
MaxStack == 6    \* the nested calls on the visitor that the stack has room for

(***************************************************************************)
(* Values.  Every Visitable, every carrier and every iterator item is a    *)
(* record of one shape, so that any two of them can be compared:           *)
(*   kind   which type of the program it is                                *)
(*   ty     the scalar type, or the helper a with_visit closure calls      *)
(*   repr   the machine representation of a scalar                         *)
(*   s      the text of a string, or a type or field name                  *)
(*   elems  the children                                                   *)
(***************************************************************************)
Mk(kind, ty, repr, s, elems) ==
    [kind |-> kind, ty |-> ty, repr |-> repr, s |-> s, elems |-> elems]

\* An integer is its little-endian bytes, a bool one byte, an f32 the triple
\* <<sign, biased exponent, 23-bit fraction>>, an f64 the quadruple
\* <<sign, biased exponent, high 23 bits of the fraction, low 29 bits>>.
Scalar(ty, repr) == Mk("scalar", ty, repr, "", <<>>)
Str(s) == Mk("str", "str", <<>>, s, <<>>)
Container(kind, elems) == Mk(kind, "", <<>>, "", elems)
Entry(k, v) == Mk("entry", "", <<>>, "", <<k, v>>)
Field(name, v) == Mk("field", "", <<>>, name, <<v>>)
Ref(v) == Mk("ref", "", <<>>, "", <<v>>)

\* enum ValueKind and the constructors of Value
Borrowed(v) == Mk("Borrowed", "", <<>>, "", <<v>>)
Owned(v) == Mk("Owned", "", <<>>, "", <<v>>)
Display(v) == Mk("Display", "", <<>>, "", <<v>>)
Debug(v) == Mk("Debug", "", <<>>, "", <<v>>)

\* Value::with_visit(value, closure): an Owned carrier of a WithVisit whose
\* closure calls the orchestration helper `helper` with `name` and `items`.
WithVisit(helper, name, items) ==
    Owned(Mk("WithVisit", helper, <<>>, name, items))

CarrierKinds == {"Borrowed", "Owned", "Display", "Debug"}

(***************************************************************************)
(* The casts of impl_values!.  `as u64` of an unsigned integer extends it  *)
(* with zero bytes, `as i64` of a signed integer with copies of its sign,  *)
(* `as f64` of an f32 rebiases the exponent and pads the fraction.         *)
(***************************************************************************)
Pad(bytes, fill) == bytes \o [i \in 1..(8 - Len(bytes)) |-> fill]

ZeroExtend(bytes) == Pad(bytes, 0)

SignExtend(bytes) == Pad(bytes, IF bytes[Len(bytes)] >= 128 THEN 255 ELSE 0)

\* The position of the highest set bit of m > 0.
RECURSIVE HighBit(_)
HighBit(m) == IF m <= 1 THEN 0 ELSE 1 + HighBit(m \div 2)

F32ToF64(f) ==
    LET sgn == f[1]
        e == f[2]
        m == f[3]
    IN  IF e = 255 THEN <<sgn, 2047, m, 0>>
        ELSE IF e = 0 /\ m = 0 THEN <<sgn, 0, 0, 0>>
        ELSE IF e = 0
             THEN LET k == HighBit(m)
                  IN  <<sgn, k + 874, (m - 2^k) * 2^(23 - k), 0>>
        ELSE <<sgn, e + 896, m, 0>>

SignedTypes == {"i8", "i16", "i32", "i64", "isize"}
UnsignedTypes == {"u16", "u32", "u64", "usize"}

\* impl_values! { visit_byte(u8), visit_uint(u64), ... }: the method a scalar
\* type is visited with.
ScalarMethod(ty) ==
    CASE ty = "u8" -> "visit_byte"
      [] ty \in UnsignedTypes -> "visit_uint"
      [] ty \in SignedTypes -> "visit_int"
      [] ty \in {"f32", "f64"} -> "visit_float"
      [] ty = "bool" -> "visit_bool"

\* ScalarArg with every integer cast zero-extended.
ScalarArgZeroExtended(v) ==
    CASE v.ty = "u8" -> Scalar("u8", v.repr)
      [] v.ty \in UnsignedTypes -> Scalar("u64", ZeroExtend(v.repr))
      [] v.ty \in SignedTypes -> Scalar("i64", ZeroExtend(v.repr))
      [] v.ty = "f32" -> Scalar("f64", F32ToF64(v.repr))
      [] v.ty = "f64" -> Scalar("f64", v.repr)
      [] v.ty = "bool" -> Scalar("bool", v.repr)

\* The argument of that call: `*self`, or `*self as $as_ty`.
ScalarArg(v) ==
    CASE v.ty = "u8" -> Scalar("u8", v.repr)
      [] v.ty \in UnsignedTypes -> Scalar("u64", ZeroExtend(v.repr))
      [] v.ty \in SignedTypes -> Scalar("i64", SignExtend(v.repr))
      [] v.ty = "f32" -> Scalar("f64", F32ToF64(v.repr))
      [] v.ty = "f64" -> Scalar("f64", v.repr)
      [] v.ty = "bool" -> Scalar("bool", v.repr)

ScalarMethods ==
    {"visit_uint", "visit_int", "visit_float", "visit_str", "visit_byte", "visit_bool"}

(***************************************************************************)
(* The standard collections, as far as their iteration order goes.         *)
(***************************************************************************)
\* Ord of two integers of one type: by sign, then by magnitude bytes from the
\* most significant one down.
RECURSIVE BytesLess(_, _, _)
BytesLess(a, b, i) ==
    IF i = 0 THEN FALSE
    ELSE IF a[i] # b[i] THEN a[i] < b[i]
    ELSE BytesLess(a, b, i - 1)

Less(x, y) ==
    LET n == Len(x.repr)
        negx == x.ty \in SignedTypes /\ x.repr[n] >= 128
        negy == y.ty \in SignedTypes /\ y.repr[n] >= 128
    IN  IF negx # negy THEN negx ELSE BytesLess(x.repr, y.repr, n)

\* The key of an item of an ordered collection: a set's element, a map's key.
KeyOf(x) == IF x.kind = "entry" THEN x.elems[1] ELSE x

\* BTreeSet::insert / BTreeMap::insert keep the keys ascending and unique.
RECURSIVE SortedInsert(_, _)
SortedInsert(s, x) ==
    IF s = <<>> THEN <<x>>
    ELSE IF KeyOf(x) = KeyOf(Head(s)) THEN <<x>> \o Tail(s)
    ELSE IF Less(KeyOf(x), KeyOf(Head(s))) THEN <<x>> \o s
    ELSE <<Head(s)>> \o SortedInsert(Tail(s), x)

RECURSIVE BTreeOf(_)
BTreeOf(ins) ==
    IF ins = <<>> THEN <<>>
    ELSE SortedInsert(BTreeOf(SubSeq(ins, 1, Len(ins) - 1)), ins[Len(ins)])

\* BinaryHeap::push: append, then sift the new element up while it is
\* greater than its parent.  iter() walks the backing vector.
RECURSIVE SiftUp(_, _)
SiftUp(data, pos) ==
    IF pos = 1 THEN data
    ELSE LET parent == pos \div 2
         IN  IF Less(data[parent], data[pos])
             THEN SiftUp([data EXCEPT ![parent] = data[pos], ![pos] = data[parent]],
                         parent)
             ELSE data

RECURSIVE HeapOf(_)
HeapOf(ins) ==
    IF ins = <<>> THEN <<>>
    ELSE LET d == Append(HeapOf(SubSeq(ins, 1, Len(ins) - 1)), ins[Len(ins)])
         IN  SiftUp(d, Len(d))

(***************************************************************************)
(* The values a traversal is started on.                                   *)
(***************************************************************************)
SeqsUpTo(S, n) == UNION {[1..k -> S] : k \in 0..n}

Injective(s) == \A i, j \in 1..Len(s) : i # j => s[i] # s[j]

Elem(n) == Scalar("i32", <<n, 0, 0, 0>>)
Elems == {Elem(n) : n \in 1..MaxElem}
ElemSeqs == SeqsUpTo(Elems, MaxLen)

ScalarSamples ==
    {Scalar("u8", <<0>>), Scalar("u8", <<200>>),
     Scalar("u16", <<52, 18>>), Scalar("u16", <<255, 255>>),
     Scalar("u32", <<1, 0, 0, 0>>), Scalar("u32", <<0, 0, 0, 128>>),
     Scalar("u64", <<1, 2, 3, 4, 5, 6, 7, 200>>),
     Scalar("usize", <<7, 0, 0, 0, 0, 0, 0, 128>>), Scalar("usize", <<9, 0, 0, 255>>),
     Scalar("i8", <<127>>), Scalar("i8", <<128>>), Scalar("i8", <<255>>),
     Scalar("i16", <<0, 128>>), Scalar("i16", <<1, 0>>),
     Scalar("i32", <<255, 255, 255, 255>>), Scalar("i32", <<0, 0, 0, 64>>),
     Scalar("i64", <<0, 0, 0, 0, 0, 0, 0, 128>>), Scalar("i64", <<5, 0, 0, 0, 0, 0, 0, 0>>),
     Scalar("isize", <<254, 255, 255, 255, 255, 255, 255, 255>>),
     Scalar("isize", <<3, 0, 0, 0>>), Scalar("isize", <<0, 0, 0, 128>>),
     Scalar("f32", <<0, 127, 0>>), Scalar("f32", <<1, 128, 4194304>>),
     Scalar("f32", <<0, 0, 0>>), Scalar("f32", <<1, 0, 1>>),
     Scalar("f32", <<0, 0, 6291456>>), Scalar("f32", <<0, 255, 0>>),
     Scalar("f64", <<0, 1023, 0, 0>>), Scalar("f64", <<1, 1024, 5, 7>>),
     Scalar("bool", <<0>>), Scalar("bool", <<1>>),
     Str("a"), Str("")}

SeqKinds == {"slice", "Vec", "LinkedList", "VecDeque"}
Sequences1 == {Container(k, s) : k \in SeqKinds, s \in ElemSeqs}
HashSets == {Container("HashSet", s) : s \in {t \in ElemSeqs : Injective(t)}}
BTreeSets == {Container("BTreeSet", BTreeOf(s)) : s \in ElemSeqs}
Heaps == {Container("BinaryHeap", HeapOf(s)) : s \in ElemSeqs}

MapVals == {Str("a"), Str("b")}
EntrySeqs == SeqsUpTo({Entry(k, v) : k \in Elems, v \in MapVals}, MaxLen)
KeysOf(es) == [i \in 1..Len(es) |-> KeyOf(es[i])]
\* A HashMap in every iteration order of its keys; each key has the one
\* value here, "a" under an odd key and "b" under an even one.
HashEntries == {Entry(k, IF k.repr[1] % 2 = 1 THEN Str("a") ELSE Str("b")) : k \in Elems}
HashMaps == {Container("HashMap", es) : es \in {t \in SeqsUpTo(HashEntries, MaxLen) : Injective(t)}}
BTreeMaps == {Container("BTreeMap", BTreeOf(es)) : es \in EntrySeqs}

Containers1 == Sequences1 \cup HashSets \cup BTreeSets \cup Heaps \cup HashMaps \cup BTreeMaps

\* Containers of containers.  A Rust collection is homogeneous: the elements
\* of one sequence are drawn from one pool.
NestPools ==
    {{Container("Vec", <<>>), Container("Vec", <<Elem(1)>>),
      Container("Vec", <<Elem(2), Elem(1)>>)},
     {Container("BTreeSet", <<>>), Container("BTreeSet", <<Elem(1), Elem(2)>>)},
     {Container("HashMap", <<>>),
      Container("HashMap", <<Entry(Elem(2), Str("a")), Entry(Elem(1), Str("b"))>>)},
     {Container("BinaryHeap", <<Elem(2), Elem(1)>>)},
     {Ref(Container("LinkedList", <<>>)), Ref(Container("LinkedList", <<Elem(1)>>))},
     {Str("a"), Str("b")},
     {Container("Vec", <<>>), Container("Vec", <<Container("Vec", <<Elem(1)>>)>>)}}

Nested ==
    {Container(k, s) : k \in {"Vec", "VecDeque"},
                       s \in UNION {SeqsUpTo(P, MaxNest) : P \in NestPools}}

NestedMaps ==
    {Container("BTreeMap", BTreeOf(es)) :
        es \in SeqsUpTo({Entry(k, v) : k \in {Elem(1), Elem(2)},
                                       v \in {Container("Vec", <<>>),
                                              Container("Vec", <<Elem(1)>>)}},
                        MaxNest)}

\* What a caller of an orchestration helper can put in its iterator: carriers
\* of any representation, among them one made by with_visit.
CarrierPool ==
    {Borrowed(Str("a")), Display(Elem(3)),
     WithVisit("visit_struct", "Inner",
               <<Field("x", Owned(Container("Vec", <<Elem(2)>>)))>>)}

PairPool ==
    {Entry(Borrowed(Str("k")), Borrowed(Elem(1))),
     Entry(Borrowed(Elem(2)), Debug(Str("a"))),
     Entry(Borrowed(Container("Vec", <<Elem(1)>>)),
           WithVisit("visit_tuple_struct", "Inner",
                     <<Owned(Container("Vec", <<Elem(2)>>))>>))}

FieldPool ==
    {Field("x", Borrowed(Elem(1))),
     Field("y", Owned(Container("Vec", <<Elem(2)>>))),
     Field("z", WithVisit("visit_map", "", <<Entry(Borrowed(Elem(1)), Display(Str("a")))>>))}

HelperCalls ==
    {WithVisit(h, n, s) : h \in {"visit_list", "visit_tuple"}, n \in {""},
                          s \in SeqsUpTo(CarrierPool, MaxLen)}
    \cup {WithVisit("visit_tuple_struct", "Pair", s) : s \in SeqsUpTo(CarrierPool, MaxLen)}
    \cup {WithVisit("visit_map", "", s) : s \in SeqsUpTo(PairPool, MaxLen)}
    \cup {WithVisit("visit_struct", "Point", s) : s \in SeqsUpTo(FieldPool, MaxLen)}

Visitables == ScalarSamples \cup Containers1 \cup Nested \cup NestedMaps

\* Value::borrowed takes a reference to a sized Visitable: a slice is visited
\* directly or through its Vec.
Tops ==
    Visitables
    \cup {Borrowed(v) : v \in {w \in Visitables : w.kind # "slice"}}
    \cup {Ref(v) : v \in ScalarSamples \cup HashSets}
    \cup {Owned(v) : v \in ScalarSamples \cup BTreeMaps}
    \cup {Display(v) : v \in ScalarSamples}
    \cup {Debug(v) : v \in ScalarSamples}
    \cup HelperCalls

(***************************************************************************)
(* The visitor.  It is the caller's code: the model fixes, per traversal,  *)
(* which scalar methods it overrides, whether its visit_kv visits the key  *)
(* and the value it is given and whether its visit_any visits the value it *)
(* is given; each call it implements itself answers Ok or Err.             *)
(***************************************************************************)
Results == {"Ok", "Err"}

\* Every scalar method is overridden by one of the two visitors and left at
\* its default by the other.
OverrideChoices ==
    {{"visit_uint", "visit_str", "visit_bool"}, {"visit_int", "visit_float", "visit_byte"}}

(***************************************************************************)
(* The call stack.  A frame is a function in progress:                     *)
(*   op     "visit" (Visitable::visit or Value::visit of items[1]), one of *)
(*          the helpers, "default" (a default scalar method) or "visit_kv" *)
(*          (the visitor's visit_kv)                                       *)
(*   pc     where it is: "named", "open", "loop", "await", "close"         *)
(*   items  what it still has to go through                                *)
(*   name   the type name given to visit_struct / visit_tuple_struct       *)
(*   call   the index in `calls` of the visitor call the frame is the body *)
(*          of, 0 when it is none                                          *)
(***************************************************************************)
Frame(op, pc, items, name, call) ==
    [op |-> op, pc |-> pc, items |-> items, name |-> name, call |-> call]

VisitFrame(v) == Frame("visit", "visit", <<v>>, "", 0)

Top == stack[Len(stack)]

Subject == Top.items[1]

Running == stack # <<>> /\ ret = "none"

At(op, pc) == Running /\ Top.op = op /\ Top.pc = pc

Visiting(kind) == At("visit", "visit") /\ Subject.kind = kind

\* One call on the visitor, as the trace keeps it: the method, its arguments,
\* its result ("pending" while it runs), the function that made it and the
\* height of the stack it was made at.
Call(m, args, ok) ==
    [m |-> m, args |-> args, ok |-> ok, by |-> Top.op, lvl |-> Len(stack)]

Pop == SubSeq(stack, 1, Len(stack) - 1)

\* The innermost frame becomes `f`.
Replace(f) == stack' = Append(Pop, f)

\* The innermost frame calls `f` and waits for it at `pc`.
Push(pc, items, f) ==
    stack' = Append(Append(Pop, [Top EXCEPT !.pc = pc, !.items = items]), f)

\* The innermost frame returns `r`; when it is the body of a visitor call,
\* that call's result is `r`.
Return(newcalls, r) ==
    /\ stack' = Pop
    /\ ret' = r
    /\ calls' = IF Top.call = 0 THEN newcalls
                ELSE [newcalls EXCEPT ![Top.call].ok = r]

\* Whether visiting `v` calls visit_kv: how the visitor's visit_kv behaves
\* makes a difference to these values only.
RECURSIVE HasKv(_)
HasKv(v) ==
    \/ v.kind \in {"HashMap", "BTreeMap"}
    \/ v.kind = "WithVisit" /\ v.ty \in {"visit_map", "visit_struct"}
    \/ \E i \in 1..Len(v.elems) : HasKv(v.elems[i])

Init ==
    /\ top \in Tops
    /\ overridden \in OverrideChoices
    /\ kvRecurse \in (IF HasKv(top) THEN BOOLEAN ELSE {FALSE})
    /\ anyRevisit = FALSE
    /\ stack = <<VisitFrame(top)>>
    /\ ret = "none"
    /\ calls = <<>>

Fixed == UNCHANGED <<top, overridden, kvRecurse, anyRevisit>>

(***************************************************************************)
(* src/value.rs: the carrier and the adapters.                             *)
(***************************************************************************)
\* format_args!(template, v): the template and the value it will render.
FmtArgs(template, v) == Mk("fmt", template, <<>>, "", <<v>>)

\* self.iter().map(Value::borrowed)
BorrowedItems(elems) == [i \in 1..Len(elems) |-> Borrowed(elems[i])]

\* self.iter().map(|(k, v)| (Value::borrowed(k), Value::borrowed(v)))
BorrowedPairs(entries) ==
    [i \in 1..Len(entries) |->
        Entry(Borrowed(entries[i].elems[1]), Borrowed(entries[i].elems[2]))]

\* A tail call: the innermost frame is replaced by the function it returns
\* the result of.
TailCall(f) == Replace(f) /\ UNCHANGED <<ret, calls>> /\ Fixed

\* ValueVisit with the result of visit_fmt dropped: the carrier returns Ok.
ValueVisitFmtDropped ==
    /\ At("visit", "visit")
    /\ Subject.kind \in CarrierKinds
    /\ Fixed
    /\ IF Subject.kind \in {"Borrowed", "Owned"}
       THEN Replace(VisitFrame(Subject.elems[1])) /\ UNCHANGED <<ret, calls>>
       ELSE \E r \in Results :
              Return(Append(calls,
                            Call("visit_fmt",
                                 <<FmtArgs(IF Subject.kind = "Display" THEN "{}" ELSE "{:?}",
                                           Subject.elems[1])>>,
                                 r)),
                     "Ok")

\* Value::visit
ValueVisit ==
    /\ At("visit", "visit")
    /\ Subject.kind \in CarrierKinds
    /\ Fixed
    /\ IF Subject.kind \in {"Borrowed", "Owned"}
       THEN Replace(VisitFrame(Subject.elems[1])) /\ UNCHANGED <<ret, calls>>
       ELSE \E r \in Results :
              Return(Append(calls,
                            Call("visit_fmt",
                                 <<FmtArgs(IF Subject.kind = "Display" THEN "{}" ELSE "{:?}",
                                           Subject.elems[1])>>,
                                 r)),
                     r)

\* WithVisit::visit: the closure is called with the stored value; the closures
\* of the model call one orchestration helper.
WithVisitVisit ==
    /\ Visiting("WithVisit")
    /\ TailCall(Frame(Subject.ty,
                      IF Subject.ty \in {"visit_struct", "visit_tuple_struct"}
                      THEN "named" ELSE "open",
                      Subject.elems, Subject.s, 0))

\* The call `visitor.m(arg)` of a scalar method, made as the last thing the
\* innermost frame does: the visitor's own method answers, or the default
\* method of the trait runs.
ScalarCall(m, arg) ==
    /\ Fixed
    /\ IF m \in overridden
       THEN \E r \in Results : Return(Append(calls, Call(m, <<arg>>, r)), r)
       ELSE /\ calls' = Append(calls, Call(m, <<arg>>, "pending"))
            /\ Replace(Frame("default", "call", <<arg>>, "", Len(calls) + 1))
            /\ UNCHANGED ret

\* impl_value!: visitor.$visit(*self) or visitor.$visit(*self as $as_ty)
ScalarVisit ==
    /\ Visiting("scalar")
    /\ ScalarCall(ScalarMethod(Subject.ty), ScalarArg(Subject))

\* impl Visitable for &str
StrVisit ==
    /\ Visiting("str")
    /\ ScalarCall("visit_str", Subject)

\* SliceVisit starting at an element that the slice does not determine.
SliceVisitRotated ==
    /\ Visiting("slice")
    /\ \E k \in 0..Len(Subject.elems) :
         TailCall(Frame("visit_list", "open",
                        BorrowedItems(SubSeq(Subject.elems, k + 1, Len(Subject.elems))
                                      \o SubSeq(Subject.elems, 1, k)),
                        "", 0))

\* impl Visitable for [T]
SliceVisit ==
    /\ Visiting("slice")
    /\ TailCall(Frame("visit_list", "open", BorrowedItems(Subject.elems), "", 0))

\* impl Visitable for Vec<T>: self.as_slice().visit(visitor)
VecVisit ==
    /\ Visiting("Vec")
    /\ TailCall(VisitFrame(Container("slice", Subject.elems)))

\* impl Visitable for HashMap<K, V>
HashMapVisit ==
    /\ Visiting("HashMap")
    /\ TailCall(Frame("visit_map", "open", BorrowedPairs(Subject.elems), "", 0))

\* impl Visitable for HashSet<T>
HashSetVisit ==
    /\ Visiting("HashSet")
    /\ TailCall(Frame("visit_tuple", "open", BorrowedItems(Subject.elems), "", 0))

\* self.iter().rev(): the items from the last to the first
Reversed(elems) == [i \in 1..Len(elems) |-> elems[Len(elems) + 1 - i]]

\* BTreeMapVisit over the reversed iterator.
BTreeMapVisitReversed ==
    /\ Visiting("BTreeMap")
    /\ TailCall(Frame("visit_map", "open", BorrowedPairs(Reversed(Subject.elems)), "", 0))

\* impl Visitable for BTreeMap<K, V>
BTreeMapVisit ==
    /\ Visiting("BTreeMap")
    /\ TailCall(Frame("visit_map", "open", BorrowedPairs(Subject.elems), "", 0))

\* BTreeSetVisit over the reversed iterator.
BTreeSetVisitReversed ==
    /\ Visiting("BTreeSet")
    /\ TailCall(Frame("visit_tuple", "open", BorrowedItems(Reversed(Subject.elems)), "", 0))

\* impl Visitable for BTreeSet<T>
BTreeSetVisit ==
    /\ Visiting("BTreeSet")
    /\ TailCall(Frame("visit_tuple", "open", BorrowedItems(Subject.elems), "", 0))

\* impl Visitable for LinkedList<T>
LinkedListVisit ==
    /\ Visiting("LinkedList")
    /\ TailCall(Frame("visit_list", "open", BorrowedItems(Subject.elems), "", 0))

\* impl Visitable for VecDeque<T>
VecDequeVisit ==
    /\ Visiting("VecDeque")
    /\ TailCall(Frame("visit_list", "open", BorrowedItems(Subject.elems), "", 0))

\* impl Visitable for BinaryHeap<T>
BinaryHeapVisit ==
    /\ Visiting("BinaryHeap")
    /\ TailCall(Frame("visit_list", "open", BorrowedItems(Subject.elems), "", 0))

\* RefVisit handing the referent to the visitor: visitor.visit_any(*self).
RefVisitAsAny ==
    /\ Visiting("ref")
    /\ Fixed
    /\ \E r \in Results :
         Return(Append(calls, Call("visit_any", <<Subject.elems[1]>>, r)), r)

\* impl Visitable for &T: (*self).visit(visitor)
RefVisit ==
    /\ Visiting("ref")
    /\ TailCall(VisitFrame(Subject.elems[1]))

(***************************************************************************)
(* src/visitor.rs: the default scalar methods and the helpers.             *)
(***************************************************************************)
\* The innermost frame moves to `pc` with `items` left.
Goto(pc, items) ==
    stack' = [stack EXCEPT ![Len(stack)].pc = pc, ![Len(stack)].items = items]

\* fn visit_uint(&mut self, value: u64) { self.visit_any(&value) } and the
\* five like it; visit_any is the visitor's and answers.
DefaultScalar ==
    /\ At("default", "call")
    /\ ~anyRevisit
    /\ Fixed
    /\ \E r \in Results : Return(Append(calls, Call("visit_any", Top.items, r)), r)

\* The calls on the visitor that have not returned: each holds a frame of
\* the Rust stack.
Depth == Cardinality({i \in 1..Len(calls) : calls[i].ok = "pending"})

\* The same default methods with a visit_any that asks the value it is given
\* to describe itself: `value.visit(self)`, where the value is the `&value`
\* of the default method.
AnyRevisit ==
    /\ At("default", "call")
    /\ anyRevisit
    /\ Depth < MaxStack
    /\ calls' = Append(calls, Call("visit_any", Top.items, "pending"))
    /\ Replace(VisitFrame(Top.items[1]))
    /\ UNCHANGED ret
    /\ Fixed

\* The call of visit_any finds no room on the stack: the process is aborted
\* and nothing is returned.
StackOverflow ==
    /\ At("default", "call")
    /\ anyRevisit
    /\ Depth >= MaxStack
    /\ stack' = <<>>
    /\ ret' = "overflow"
    /\ UNCHANGED calls
    /\ Fixed

\* OpenBracket without the `?`: `self.m();` and on to the loop.
OpenBracketUnchecked(h, m) ==
    /\ At(h, "open")
    /\ Fixed
    /\ \E r \in Results : calls' = Append(calls, Call(m, <<>>, r))
    /\ Goto("loop", Top.items)
    /\ UNCHANGED ret

\* `self.m()?` at the head of helper `h`
OpenBracket(h, m) ==
    /\ At(h, "open")
    /\ Fixed
    /\ \E r \in Results :
         LET newcalls == Append(calls, Call(m, <<>>, r))
         IN  IF r = "Err"
             THEN Return(newcalls, "Err")
             ELSE Goto("loop", Top.items) /\ calls' = newcalls /\ UNCHANGED ret

\* CloseBracket with an error of the helper's own: `self.m()?; Err(..)`.
CloseBracketFailing(h, m) ==
    /\ At(h, "loop")
    /\ Top.items = <<>>
    /\ Fixed
    /\ \E r \in Results : Return(Append(calls, Call(m, <<>>, r)), "Err")

\* `self.m()` as the result of helper `h`, once its iterator is exhausted
CloseBracket(h, m) ==
    /\ At(h, "loop")
    /\ Top.items = <<>>
    /\ Fixed
    /\ \E r \in Results : Return(Append(calls, Call(m, <<>>, r)), r)

\* VisitElem taking the items from the back of the iterator.
VisitElemFromBack(h) ==
    /\ At(h, "loop")
    /\ Top.items # <<>>
    /\ Push("await", SubSeq(Top.items, 1, Len(Top.items) - 1),
            VisitFrame(Top.items[Len(Top.items)]))
    /\ UNCHANGED <<ret, calls>>
    /\ Fixed

\* `v.visit(self)` for the next `v` of the iterator of `h`
VisitElem(h) ==
    /\ At(h, "loop")
    /\ Top.items # <<>>
    /\ Push("await", Tail(Top.items), VisitFrame(Head(Top.items)))
    /\ UNCHANGED <<ret, calls>>
    /\ Fixed

\* Try without the early return: the callee's error is dropped and the
\* loop goes on.
TrySwallow(h) ==
    /\ stack # <<>>
    /\ ret # "none"
    /\ Top.op = h
    /\ Top.pc = "await"
    /\ Fixed
    /\ Goto("loop", Top.items) /\ ret' = "none" /\ UNCHANGED calls

\* the `?` on what the callee returned to `h`
Try(h) ==
    /\ stack # <<>>
    /\ ret # "none"
    /\ Top.op = h
    /\ Top.pc = "await"
    /\ Fixed
    /\ IF ret = "Err"
       THEN Return(calls, "Err")
       ELSE Goto("loop", Top.items) /\ ret' = "none" /\ UNCHANGED calls

\* `self.visit_kv(k, v)?` for the next item of the iterator of `h`.  The
\* visitor's visit_kv answers by itself, or (kvRecurse) starts to visit the
\* key and the value.
VisitKv(h, args) ==
    /\ At(h, "loop")
    /\ Top.items # <<>>
    /\ Fixed
    /\ \/ \E r \in (IF kvRecurse THEN {"Err"} ELSE Results) :
            LET newcalls == Append(calls, Call("visit_kv", args, r))
            IN  IF r = "Err"
                THEN Return(newcalls, "Err")
                ELSE Goto("loop", Tail(Top.items)) /\ calls' = newcalls /\ UNCHANGED ret
       \/ /\ kvRecurse
          /\ calls' = Append(calls, Call("visit_kv", args, "pending"))
          /\ Push("await", Tail(Top.items),
                  Frame("visit_kv", "loop", args, "", Len(calls) + 1))
          /\ UNCHANGED ret

\* `self.named_type(name)?;` the helper returns the error of named_type.
NamedTypeChecked(h) ==
    /\ At(h, "named")
    /\ Fixed
    /\ \E r \in Results :
         LET newcalls == Append(calls, Call("named_type", <<Str(Top.name)>>, r))
         IN  IF r = "Err"
             THEN Return(newcalls, "Err")
             ELSE Goto("open", Top.items) /\ calls' = newcalls /\ UNCHANGED ret

\* `self.named_type(name);` the result is dropped
NamedType(h) ==
    /\ At(h, "named")
    /\ Fixed
    /\ \E r \in Results :
         calls' = Append(calls, Call("named_type", <<Str(Top.name)>>, r))
    /\ Goto("open", Top.items)
    /\ UNCHANGED ret

\* visit_map
VisitMapOpen == OpenBracket("visit_map", "open_map")
\* VisitMapKv visiting the key itself: `k.visit(self)?` in place of visit_kv.
VisitMapKey ==
    /\ At("visit_map", "loop")
    /\ Top.items # <<>>
    /\ Push("await", Tail(Top.items), VisitFrame(Head(Top.items).elems[1]))
    /\ UNCHANGED <<ret, calls>>
    /\ Fixed

VisitMapKv == VisitKv("visit_map", Head(Top.items).elems)
VisitMapTrySwallow == TrySwallow("visit_map")
VisitMapTry == Try("visit_map")
VisitMapClose == CloseBracket("visit_map", "close_map")

\* visit_list
VisitListOpen == OpenBracket("visit_list", "open_list")
VisitListElemFromBack == VisitElemFromBack("visit_list")
VisitListElem == VisitElem("visit_list")
VisitListTrySwallow == TrySwallow("visit_list")
\* VisitListTry closing the list before it returns the error.
VisitListTryClosing ==
    /\ stack # <<>>
    /\ ret # "none"
    /\ Top.op = "visit_list"
    /\ Top.pc = "await"
    /\ Fixed
    /\ IF ret = "Err"
       THEN \E r \in Results :
              Return(Append(calls, Call("close_list", <<>>, r)), "Err")
       ELSE Goto("loop", Top.items) /\ ret' = "none" /\ UNCHANGED calls

VisitListTry == Try("visit_list")
VisitListClose == CloseBracket("visit_list", "close_list")

\* visit_struct
VisitStructNamedChecked == NamedTypeChecked("visit_struct")
VisitStructNamed == NamedType("visit_struct")
VisitStructOpen == OpenBracket("visit_struct", "open_struct")
VisitStructKvSwapped ==
    VisitKv("visit_struct",
            <<Head(Top.items).elems[1], Borrowed(Str(Head(Top.items).s))>>)
VisitStructKv ==
    VisitKv("visit_struct",
            <<Borrowed(Str(Head(Top.items).s)), Head(Top.items).elems[1]>>)
VisitStructTry == Try("visit_struct")
VisitStructClose == CloseBracket("visit_struct", "close_struct")

\* visit_tuple
VisitTupleOpen == OpenBracket("visit_tuple", "open_tuple")
VisitTupleElem == VisitElem("visit_tuple")
VisitTupleTrySwallow == TrySwallow("visit_tuple")
VisitTupleTry == Try("visit_tuple")
VisitTupleClose == CloseBracket("visit_tuple", "close_tuple")

\* visit_tuple_struct
VisitTupleStructNamed == NamedType("visit_tuple_struct")
VisitTupleStructOpenStruct == OpenBracket("visit_tuple_struct", "open_struct")
VisitTupleStructOpen == OpenBracket("visit_tuple_struct", "open_tuple")
VisitTupleStructElem == VisitElem("visit_tuple_struct")
VisitTupleStructTry == Try("visit_tuple_struct")
VisitTupleStructClose == CloseBracket("visit_tuple_struct", "close_tuple")

(***************************************************************************)
(* The visitor's visit_kv, when it visits what it is given: the key, then  *)
(* the value, giving up at the first error, and then its own verdict.      *)
(***************************************************************************)
KvVisitChild == VisitElem("visit_kv")
KvTry == Try("visit_kv")
KvReturn ==
    /\ At("visit_kv", "loop")
    /\ Top.items = <<>>
    /\ Fixed
    /\ \E r \in Results : Return(calls, r)

Next ==
    \/ ValueVisit
    \/ WithVisitVisit
    \/ ScalarVisit
    \/ StrVisit
    \/ SliceVisit
    \/ VecVisit
    \/ HashMapVisit
    \/ HashSetVisit
    \/ BTreeMapVisit
    \/ BTreeSetVisit
    \/ LinkedListVisit
    \/ VecDequeVisit
    \/ BinaryHeapVisit
    \/ RefVisit
    \/ DefaultScalar
    \/ VisitMapOpen
    \/ VisitMapKv
    \/ VisitMapTry
    \/ VisitMapClose
    \/ VisitListOpen
    \/ VisitListElem
    \/ VisitListTry
    \/ VisitListClose
    \/ VisitStructNamed
    \/ VisitStructOpen
    \/ VisitStructKv
    \/ VisitStructTry
    \/ VisitStructClose
    \/ VisitTupleOpen
    \/ VisitTupleElem
    \/ VisitTupleTry
    \/ VisitTupleClose
    \/ VisitTupleStructNamed
    \/ VisitTupleStructOpen
    \/ VisitTupleStructElem
    \/ VisitTupleStructTry
    \/ VisitTupleStructClose
    \/ KvVisitChild
    \/ KvTry
    \/ KvReturn

Spec == Init /\ [][Next]_vars

\* The top-level call has returned; `ret` is its result.
Done == stack = <<>>

(***************************************************************************)
(* The traversals of scalars and strings, bare or behind a carrier or a    *)
(* reference, with a visitor of either kind of visit_any that overrides    *)
(* some, or none, of the scalar methods.                                   *)
(***************************************************************************)
ScalarTops ==
    ScalarSamples
    \cup {Borrowed(v) : v \in ScalarSamples}
    \cup {Owned(v) : v \in ScalarSamples}
    \cup {Ref(v) : v \in ScalarSamples}

InitScalar ==
    /\ top \in ScalarTops
    /\ overridden \in OverrideChoices \cup {{}}
    /\ kvRecurse = FALSE
    /\ anyRevisit \in BOOLEAN
    /\ stack = <<VisitFrame(top)>>
    /\ ret = "none"
    /\ calls = <<>>

NextScalar ==
    \/ ValueVisit
    \/ RefVisit
    \/ ScalarVisit
    \/ StrVisit
    \/ DefaultScalar
    \/ AnyRevisit
    \/ StackOverflow

SpecScalar == InitScalar /\ [][NextScalar]_vars

(***************************************************************************)
(* What the claims are stated with.                                        *)
(***************************************************************************)
\* The Visitable behind the carriers and references wrapped around it.
RECURSIVE Core(_)
Core(v) == IF v.kind \in {"Borrowed", "Owned", "ref"} THEN Core(v.elems[1]) ELSE v

\* The top-level call is helper `h`, called with any iterator.
TopIsHelper(h) == Core(top).kind = "WithVisit" /\ Core(top).ty = h

\* The calls the top-level function itself made, when it is helper `h`.
Own(h) == SelectSeq(calls, LAMBDA c : c.by = h /\ c.lvl = 1)

\* A call without its result.
Sig(m, args) == [m |-> m, args |-> args]
SigOf(c) == Sig(c.m, c.args)
Sigs(cs) == [i \in 1..Len(cs) |-> SigOf(cs[i])]

AllOk(cs) == \A i \in 1..Len(cs) : cs[i].ok = "Ok"
SomeErr(cs) == \E i \in 1..Len(cs) : cs[i].ok = "Err"

IsPrefix(a, b) == Len(a) <= Len(b) /\ \A i \in 1..Len(a) : a[i] = b[i]

(***************************************************************************)
(* C1.  visit_map is fail-fast.                                            *)
(***************************************************************************)
TopIsMap == TopIsHelper("visit_map") \/ Core(top).kind \in {"HashMap", "BTreeMap"}

\* The pairs the top-level visit_map is given: the caller's, or a map's
\* entries, each key and value behind a borrowed carrier.
TopPairs ==
    LET c == Core(top)
    IN  IF c.kind = "WithVisit" THEN c.elems
        ELSE [i \in 1..Len(c.elems) |->
                Entry(Borrowed(c.elems[i].elems[1]), Borrowed(c.elems[i].elems[2]))]

MapSequence ==
    <<Sig("open_map", <<>>)>>
    \o [i \in 1..Len(TopPairs) |-> Sig("visit_kv", TopPairs[i].elems)]
    \o <<Sig("close_map", <<>>)>>

FailFastState ==
    TopIsMap =>
        LET own == Own("visit_map")
        IN  /\ IsPrefix(Sigs(own), MapSequence)
            /\ \A i \in 1..Len(own) : own[i].ok = "Err" => i = Len(own)
            /\ Done /\ SomeErr(own) => ret = "Err"
            /\ Done /\ AllOk(own) => Len(own) = Len(MapSequence) /\ ret = "Ok"

FailFastStep == TopIsMap /\ SomeErr(Own("visit_map")) => calls' = calls

\* C1: the top-level visit_map calls open_map, visit_kv once per pair in the
\* iterator's order and close_map, in this order; once one of these calls
\* has returned an error no call is made on the visitor any more, and
\* visit_map returns the error.
C1_FailFastVisitMap == []FailFastState /\ [][FailFastStep]_vars

\* visit_kv failed on the second of three entries: the third was not
\* visited, close_map was not called, the error was returned.
C1_Witness ==
    /\ Done
    /\ TopIsMap
    /\ Len(TopPairs) = 3
    /\ Len(Own("visit_map")) = 3
    /\ Own("visit_map")[3].m = "visit_kv"
    /\ Own("visit_map")[3].ok = "Err"
    /\ calls[Len(calls)].by # "visit_map"
    /\ ret = "Err"

(***************************************************************************)
(* C2.  No error is swallowed.                                             *)
(***************************************************************************)
\* C2: when a call on the visitor returned an error during the traversal,
\* the top-level call returns an error.
C2_NoErrorSwallowed == Done /\ SomeErr(calls) => ret = "Err"

(***************************************************************************)
(* C3.  The calls of visit_struct, in order.                               *)
(***************************************************************************)
TopName == Core(top).s
TopFields == Core(top).elems

StructSequence ==
    <<Sig("named_type", <<Str(TopName)>>), Sig("open_struct", <<>>)>>
    \o [i \in 1..Len(TopFields) |->
          Sig("visit_kv", <<Borrowed(Str(TopFields[i].s)), TopFields[i].elems[1]>>)]
    \o <<Sig("close_struct", <<>>)>>

\* The visit_kv calls of the top-level helper, as indices of `calls`.
OwnKvs(h) == {i \in 1..Len(calls) :
                calls[i].m = "visit_kv" /\ calls[i].by = h /\ calls[i].lvl = 1}

\* C3: with a visitor that never fails, the top-level visit_struct emits
\* named_type(name), open_struct, one visit_kv per field in the iterator's
\* order, its key the borrowed field name and its value the field's value,
\* and close_struct; named_type is the first call of the traversal,
\* close_struct the last; a visitor that visits the key carrier is called
\* visit_str with the field name.
C3_VisitStructOrder ==
    TopIsHelper("visit_struct") /\ Done /\ AllOk(calls) =>
        /\ Sigs(Own("visit_struct")) = StructSequence
        /\ calls[1].m = "named_type" /\ calls[1].by = "visit_struct"
        /\ calls[2].m = "open_struct"
        /\ calls[Len(calls)].m = "close_struct" /\ calls[Len(calls)].lvl = 1
        /\ kvRecurse =>
             \A i \in OwnKvs("visit_struct") :
                /\ calls[i + 1].m = "visit_str"
                /\ calls[i + 1].args = <<Str(calls[i].args[1].elems[1].s)>>
                /\ calls[i].args[1].kind = "Borrowed"

C3_Witness ==
    /\ TopIsHelper("visit_struct")
    /\ Done
    /\ AllOk(calls)
    /\ kvRecurse
    /\ Len(TopFields) = 3
    /\ TopFields[1].s # TopFields[2].s

(***************************************************************************)
(* C4.  visit_struct drops the result of named_type.                       *)
(***************************************************************************)
\* C4: whatever named_type returned, the top-level visit_struct goes on to
\* open_struct, and it returns Ok exactly when open_struct, every visit_kv
\* and close_struct returned Ok, in which case it made all of these calls.
C4_NamedTypeDiscarded ==
    TopIsHelper("visit_struct") /\ Done =>
        LET own == Own("visit_struct")
        IN  /\ Len(own) >= 2
            /\ own[1].m = "named_type"
            /\ own[2].m = "open_struct"
            /\ ret = "Ok" <=> AllOk(Tail(own))
            /\ AllOk(Tail(own)) => Sigs(own) = StructSequence

C4_Witness ==
    /\ TopIsHelper("visit_struct")
    /\ Done
    /\ Own("visit_struct")[1].ok = "Err"
    /\ Len(TopFields) >= 2
    /\ Len(Own("visit_struct")) = Len(TopFields) + 3
    /\ ret = "Ok"

(***************************************************************************)
(* The calls a value is described with when no call fails, as sections 4.2 *)
(* and 4.3 of the specification give them.  A priority queue is left out   *)
(* (HeapFree): C6 is about it.                                             *)
(***************************************************************************)
RECURSIVE HeapFree(_)
HeapFree(v) ==
    /\ v.kind # "BinaryHeap"
    /\ \A i \in 1..Len(v.elems) : HeapFree(v.elems[i])

Bracketed(open, inner, close) == <<Sig(open, <<>>)>> \o inner \o <<Sig(close, <<>>)>>

RECURSIVE Expected(_)
RECURSIVE ExpectedAll(_)
RECURSIVE ExpectedKvs(_)
Expected(v) ==
    CASE v.kind = "scalar" ->
            <<Sig(ScalarMethod(v.ty), <<ScalarArg(v)>>)>>
            \o (IF ScalarMethod(v.ty) \in overridden THEN <<>>
                ELSE <<Sig("visit_any", <<ScalarArg(v)>>)>>)
      [] v.kind = "str" ->
            <<Sig("visit_str", <<v>>)>>
            \o (IF "visit_str" \in overridden THEN <<>> ELSE <<Sig("visit_any", <<v>>)>>)
      [] v.kind \in {"Borrowed", "Owned", "ref"} -> Expected(v.elems[1])
      [] v.kind = "Display" -> <<Sig("visit_fmt", <<FmtArgs("{}", v.elems[1])>>)>>
      [] v.kind = "Debug" -> <<Sig("visit_fmt", <<FmtArgs("{:?}", v.elems[1])>>)>>
      [] v.kind \in {"slice", "Vec", "LinkedList", "VecDeque"} ->
            Bracketed("open_list",
                      ExpectedAll([i \in 1..Len(v.elems) |-> Borrowed(v.elems[i])]),
                      "close_list")
      [] v.kind \in {"HashSet", "BTreeSet"} ->
            Bracketed("open_tuple",
                      ExpectedAll([i \in 1..Len(v.elems) |-> Borrowed(v.elems[i])]),
                      "close_tuple")
      [] v.kind \in {"HashMap", "BTreeMap"} ->
            Bracketed("open_map",
                      ExpectedKvs([i \in 1..Len(v.elems) |->
                                    <<Borrowed(v.elems[i].elems[1]),
                                      Borrowed(v.elems[i].elems[2])>>]),
                      "close_map")
      [] v.kind = "WithVisit" /\ v.ty = "visit_list" ->
            Bracketed("open_list", ExpectedAll(v.elems), "close_list")
      [] v.kind = "WithVisit" /\ v.ty = "visit_tuple" ->
            Bracketed("open_tuple", ExpectedAll(v.elems), "close_tuple")
      [] v.kind = "WithVisit" /\ v.ty = "visit_map" ->
            Bracketed("open_map",
                      ExpectedKvs([i \in 1..Len(v.elems) |-> v.elems[i].elems]),
                      "close_map")
      [] v.kind = "WithVisit" /\ v.ty = "visit_struct" ->
            <<Sig("named_type", <<Str(v.s)>>)>>
            \o Bracketed("open_struct",
                         ExpectedKvs([i \in 1..Len(v.elems) |->
                                        <<Borrowed(Str(v.elems[i].s)), v.elems[i].elems[1]>>]),
                         "close_struct")
      [] v.kind = "WithVisit" /\ v.ty = "visit_tuple_struct" ->
            <<Sig("named_type", <<Str(v.s)>>)>>
            \o Bracketed("open_tuple", ExpectedAll(v.elems), "close_tuple")

ExpectedAll(vs) ==
    IF vs = <<>> THEN <<>> ELSE Expected(Head(vs)) \o ExpectedAll(Tail(vs))

\* One visit_kv per pair; a visitor that visits what it is given goes on
\* with the key and then the value.
ExpectedKvs(kvs) ==
    IF kvs = <<>> THEN <<>>
    ELSE <<Sig("visit_kv", Head(kvs))>>
         \o (IF kvRecurse THEN ExpectedAll(Head(kvs)) ELSE <<>>)
         \o ExpectedKvs(Tail(kvs))

(***************************************************************************)
(* C5.  Sequences are visited in order, between list brackets.             *)
(***************************************************************************)
TopIsSequence == Core(top).kind \in {"slice", "Vec", "LinkedList", "VecDeque"}

\* C5: with a visitor that never fails, a slice, Vec, LinkedList or VecDeque
\* emits open_list, then the visit of each element in the container's
\* order, then close_list, and for an empty one open_list and close_list;
\* visit_list itself calls nothing but the two brackets (no visit_kv).
C5_SequenceOrder ==
    TopIsSequence /\ HeapFree(top) /\ Done /\ AllOk(calls) =>
        /\ Sigs(calls) =
             Bracketed("open_list",
                       ExpectedAll([i \in 1..Len(Core(top).elems) |->
                                      Borrowed(Core(top).elems[i])]),
                       "close_list")
        /\ Sigs(Own("visit_list")) = <<Sig("open_list", <<>>), Sig("close_list", <<>>)>>
        /\ Core(top).elems = <<>> => Len(calls) = 2

C5_Witness ==
    /\ Done
    /\ AllOk(calls)
    /\ Core(top).kind = "VecDeque"
    /\ Core(top).elems = <<Elem(2), Elem(1), Elem(2)>>

(***************************************************************************)
(* C6, C7, C8.  Priority queues, sets and maps.                            *)
(***************************************************************************)
Range(f) == {f[i] : i \in DOMAIN f}

\* The multiset of the items of a sequence.
BagOfSeq(q) == [x \in Range(q) |-> Cardinality({i \in DOMAIN q : q[i] = x})]

\* The number a little-endian byte string stands for.
RECURSIVE NatValue(_)
NatValue(bytes) == IF bytes = <<>> THEN 0 ELSE Head(bytes) + 256 * NatValue(Tail(bytes))

Ascending(ns) == \A i \in 1..(Len(ns) - 1) : ns[i] < ns[i + 1]

\* The integers visited, in the order of the visit_int calls.
VisitedInts ==
    LET cs == SelectSeq(calls, LAMBDA c : c.m = "visit_int")
    IN  [i \in 1..Len(cs) |-> NatValue(cs[i].args[1].repr)]

\* The integers a container of integers holds, in its internal order.
HeldInts == [i \in 1..Len(Core(top).elems) |-> NatValue(Core(top).elems[i].repr)]

\* The traversal is `kind` brackets around one visit per held integer.
BracketedInts(kind) ==
    /\ SigOf(calls[1]) = Sig("open_" \o kind, <<>>)
    /\ SigOf(calls[Len(calls)]) = Sig("close_" \o kind, <<>>)
    /\ \A i \in 2..(Len(calls) - 1) : calls[i].m \in {"visit_int", "visit_any"}
    /\ Len(VisitedInts) = Len(HeldInts)
    /\ BagOfSeq(VisitedInts) = BagOfSeq(HeldInts)

TopIsHeap == Core(top).kind = "BinaryHeap"

\* C6: with a visitor that never fails a BinaryHeap emits open_tuple, each
\* element once (the visited elements are the multiset of the heap's
\* contents, in any order), close_tuple, and no list bracket.
C6_HeapTupleBracketed == TopIsHeap /\ Done /\ AllOk(calls) => BracketedInts("tuple")

\* What the code does instead: the same traversal between list brackets.
HeapListBracketed == TopIsHeap /\ Done /\ AllOk(calls) => BracketedInts("list")

TopIsSet == Core(top).kind \in {"HashSet", "BTreeSet"}

\* C7: with a visitor that never fails a HashSet or BTreeSet emits
\* open_tuple, each element once, close_tuple and no other bracket or
\* visit_kv; the visited elements are the multiset of the set's elements,
\* and those of a BTreeSet come in ascending order.
C7_SetTraversal ==
    TopIsSet /\ Done /\ AllOk(calls) =>
        /\ BracketedInts("tuple")
        /\ Core(top).kind = "BTreeSet" => Ascending(VisitedInts)

C7_Witness ==
    /\ Done
    /\ AllOk(calls)
    /\ Core(top).kind = "BTreeSet"
    /\ VisitedInts = <<1, 2, 3>>

TopIsMapAdapter == Core(top).kind \in {"HashMap", "BTreeMap"}

\* The entries of the top-level map, and the pairs its visit_kv calls carry.
HeldEntries == [i \in 1..Len(Core(top).elems) |-> Core(top).elems[i].elems]
VisitedEntries ==
    LET cs == SelectSeq(Own("visit_map"), LAMBDA c : c.m = "visit_kv")
    IN  [i \in 1..Len(cs) |-> <<cs[i].args[1].elems[1], cs[i].args[2].elems[1]>>]

\* C8: with a visitor that never fails a BTreeMap or HashMap emits open_map,
\* one visit_kv per entry, with the entry's key and value each behind a
\* borrowed carrier, and close_map; the visit_kv calls carry the multiset of
\* the map's entries, and those of a BTreeMap come in ascending key order.
C8_MapTraversal ==
    TopIsMapAdapter /\ Done /\ AllOk(calls) =>
        LET own == Own("visit_map")
        IN  /\ calls[1] = own[1] /\ SigOf(own[1]) = Sig("open_map", <<>>)
            /\ calls[Len(calls)] = own[Len(own)]
            /\ SigOf(own[Len(own)]) = Sig("close_map", <<>>)
            /\ Len(own) = Len(HeldEntries) + 2
            /\ \A i \in 2..(Len(own) - 1) :
                 /\ own[i].m = "visit_kv"
                 /\ own[i].args[1].kind = "Borrowed"
                 /\ own[i].args[2].kind = "Borrowed"
            /\ BagOfSeq(VisitedEntries) = BagOfSeq(HeldEntries)
            /\ Core(top).kind = "BTreeMap" =>
                 Ascending([i \in 1..Len(VisitedEntries) |->
                              NatValue(VisitedEntries[i][1].repr)])

C8_Witness ==
    /\ Done
    /\ AllOk(calls)
    /\ Len(HeldEntries) = 3
    /\ Core(top).kind = "BTreeMap"
    /\ Len(VisitedEntries) = 3

(***************************************************************************)
(* C9.  Scalar dispatch.                                                   *)
(***************************************************************************)
\* The method the specification's table gives a scalar type.
TableMethod(ty) ==
    CASE ty = "u8" -> "visit_byte"
      [] ty \in {"u16", "u32", "u64", "usize"} -> "visit_uint"
      [] ty \in {"i8", "i16", "i32", "i64", "isize"} -> "visit_int"
      [] ty \in {"f32", "f64"} -> "visit_float"
      [] ty = "bool" -> "visit_bool"
      [] ty = "str" -> "visit_str"

\* The shortest byte string of the same number: a two's complement number
\* loses a top byte that only repeats its sign, an unsigned one a zero top
\* byte.  Two integers of one signedness are equal exactly when these are.
RECURSIVE Shortest(_, _)
Shortest(bytes, signed) ==
    LET n == Len(bytes)
        front == SubSeq(bytes, 1, n - 1)
    IN  IF n <= 1 THEN bytes
        ELSE IF signed
             THEN IF \/ bytes[n] = 0 /\ bytes[n - 1] < 128
                     \/ bytes[n] = 255 /\ bytes[n - 1] >= 128
                  THEN Shortest(front, signed) ELSE bytes
        ELSE IF bytes[n] = 0 THEN Shortest(front, signed) ELSE bytes

\* The f64 d is the number (or infinity) that the f32 f is.
SameFloat(f, d) ==
    /\ d[1] = f[1]
    /\ d[4] = 0
    /\ IF f[2] = 255 THEN d[2] = 2047 /\ d[3] = f[3]
       ELSE IF f[2] = 0 /\ f[3] = 0 THEN d[2] = 0 /\ d[3] = 0
       ELSE IF f[2] = 0
            \* f[3] * 2^-149 = (2^23 + d[3]) * 2^(d[2] - 1046)
            THEN d[2] \in 1..896 /\ 2^23 + d[3] = f[3] * 2^(897 - d[2])
       ELSE d[2] - 1023 = f[2] - 127 /\ d[3] = f[3]

\* `arg` is the value of the scalar `v` in the 64-bit form of its kind.
Widened(v, arg) ==
    CASE v.ty = "u8" -> arg = v
      [] v.ty \in UnsignedTypes ->
            /\ arg.kind = "scalar" /\ arg.ty = "u64" /\ Len(arg.repr) = 8
            /\ Shortest(arg.repr, FALSE) = Shortest(v.repr, FALSE)
      [] v.ty \in SignedTypes ->
            /\ arg.kind = "scalar" /\ arg.ty = "i64" /\ Len(arg.repr) = 8
            /\ Shortest(arg.repr, TRUE) = Shortest(v.repr, TRUE)
            /\ (arg.repr[8] >= 128) = (v.repr[Len(v.repr)] >= 128)
      [] v.ty = "f32" ->
            arg.kind = "scalar" /\ arg.ty = "f64" /\ SameFloat(v.repr, arg.repr)
      [] v.ty \in {"f64", "bool", "str"} -> arg = v

TopIsScalar == Core(top).kind \in {"scalar", "str"}

\* C9: visiting a scalar calls the one scalar method of its type, with the
\* value in its 64-bit form, and nothing else; when the visitor leaves that
\* method at its default, the default calls visit_any once with the same
\* value and returns what visit_any returned.
C9_ScalarDispatch ==
    TopIsScalar /\ Done =>
        /\ calls # <<>>
        /\ calls[1].m = TableMethod(Core(top).ty)
        /\ Len(calls[1].args) = 1
        /\ Widened(Core(top), calls[1].args[1])
        /\ IF calls[1].m \in overridden
           THEN Len(calls) = 1 /\ ret = calls[1].ok
           ELSE /\ Len(calls) = 2
                /\ SigOf(calls[2]) = Sig("visit_any", calls[1].args)
                /\ calls[1].ok = calls[2].ok
                /\ ret = calls[2].ok

\* A negative i8 was visited through the default visit_int.
C9_Witness ==
    /\ Done
    /\ Core(top) = Scalar("i8", <<128>>)
    /\ calls[1].m = "visit_int"
    /\ calls[1].args[1].repr = <<128, 255, 255, 255, 255, 255, 255, 255>>
    /\ Len(calls) = 2
    /\ ret = "Err"

(***************************************************************************)
(* C10.  Brackets are well nested.                                         *)
(***************************************************************************)
Opens == {"open_map", "open_list", "open_struct", "open_tuple"}
Closes == {"close_map", "close_list", "close_struct", "close_tuple"}

CloseOf(m) ==
    CASE m = "open_map" -> "close_map"
      [] m = "open_list" -> "close_list"
      [] m = "open_struct" -> "close_struct"
      [] m = "open_tuple" -> "close_tuple"

\* The brackets left open after the calls cs[i..], given those open before
\* (`open`, innermost last); <<"unbalanced">> when a close_Y meets no open
\* bracket or an open bracket of another kind.
RECURSIVE OpenAfter(_, _, _)
OpenAfter(cs, i, open) ==
    IF i > Len(cs) THEN open
    ELSE IF cs[i].m \in Opens THEN OpenAfter(cs, i + 1, Append(open, cs[i].m))
    ELSE IF cs[i].m \in Closes
         THEN IF open # <<>> /\ CloseOf(open[Len(open)]) = cs[i].m
              THEN OpenAfter(cs, i + 1, SubSeq(open, 1, Len(open) - 1))
              ELSE <<"unbalanced">>
    ELSE OpenAfter(cs, i + 1, open)

\* The deepest nesting the calls reach.
RECURSIVE Deepest(_, _, _)
Deepest(cs, i, depth) ==
    IF i > Len(cs) THEN depth
    ELSE LET d == IF cs[i].m \in Opens THEN depth + 1
                  ELSE IF cs[i].m \in Closes THEN depth - 1 ELSE depth
             rest == Deepest(cs, i + 1, d)
         IN  IF rest > d THEN rest ELSE d

\* C10: when the top-level visit returns Ok, the open_* and close_* calls it
\* emitted are well nested: every close_X closes the innermost open bracket,
\* which is an open_X, and no bracket is left open at the end.
C10_BracketsWellNested == Done /\ ret = "Ok" => OpenAfter(calls, 1, <<>>) = <<>>

C10_Witness ==
    /\ Done
    /\ ret = "Ok"
    /\ Deepest(calls, 1, 0) >= 3
    /\ {"open_map", "open_tuple", "open_list"} \subseteq {calls[i].m : i \in 1..Len(calls)}

(***************************************************************************)
(* The traversal of a value as one recursive function of the value and of  *)
(* what the visitor answered.  Walk(v, i) reads the recorded calls from    *)
(* index i on and follows the code of v's visit along them: `next` is the  *)
(* index after the last call of that visit and `r` its result, "Mismatch"  *)
(* when a recorded call is not the one the visit makes at that point.  The *)
(* call at an index is fixed by the value and the answers before it, so    *)
(* two traversals of one value that got the same answers and both follow   *)
(* Walk made the same calls.                                               *)
(***************************************************************************)
Walked(next, r) == [next |-> next, r |-> r]

Mismatch(i) == Walked(i, "Mismatch")

\* The call at index i is m(args), answered by the visitor itself.
Leaf(i, m, args) ==
    IF i <= Len(calls) /\ SigOf(calls[i]) = Sig(m, args)
    THEN Walked(i + 1, calls[i].ok)
    ELSE Mismatch(i)

\* A scalar method: the visitor's own, or the default and its visit_any.
LeafScalar(i, m, arg) ==
    IF m \in overridden THEN Leaf(i, m, <<arg>>)
    ELSE IF /\ i + 1 <= Len(calls)
            /\ SigOf(calls[i]) = Sig(m, <<arg>>)
            /\ SigOf(calls[i + 1]) = Sig("visit_any", <<arg>>)
            /\ calls[i].ok = calls[i + 1].ok
         THEN Walked(i + 2, calls[i + 1].ok)
         ELSE Mismatch(i)

RECURSIVE Walk(_, _)
RECURSIVE WalkAll(_, _)
RECURSIVE WalkKvs(_, _)
RECURSIVE WalkBracket(_, _, _, _, _)

\* open()?; the children, each with `?`; close()
WalkBracket(open, close, kv, items, i) ==
    LET o == Leaf(i, open, <<>>)
        body == IF kv THEN WalkKvs(items, o.next) ELSE WalkAll(items, o.next)
    IN  IF o.r # "Ok" THEN o
        ELSE IF body.r # "Ok" THEN body
        ELSE Leaf(body.next, close, <<>>)

\* v.visit(self)? for each v
WalkAll(vs, i) ==
    IF vs = <<>> THEN Walked(i, "Ok")
    ELSE LET w == Walk(Head(vs), i)
         IN  IF w.r # "Ok" THEN w ELSE WalkAll(Tail(vs), w.next)

\* self.visit_kv(k, v)? for each pair <<k, v>>; a visitor that visits what
\* it is given fails at once (and the traversal ends with this call), or
\* fails when the key or the value does, and answers as it likes otherwise.
WalkKvs(kvs, i) ==
    IF kvs = <<>> THEN Walked(i, "Ok")
    ELSE LET call == Leaf(i, "visit_kv", Head(kvs))
             inner == WalkAll(Head(kvs), i + 1)
             w == IF call.r = "Mismatch" \/ ~kvRecurse THEN call
                  ELSE IF call.r = "Err" /\ i = Len(calls) THEN call
                  ELSE IF inner.r = "Mismatch" THEN inner
                  ELSE IF inner.r = "Err" /\ call.r # "Err" THEN Mismatch(i)
                  ELSE Walked(inner.next, call.r)
         IN  IF w.r # "Ok" THEN w ELSE WalkKvs(Tail(kvs), w.next)

Walk(v, i) ==
    CASE v.kind = "scalar" -> LeafScalar(i, ScalarMethod(v.ty), ScalarArg(v))
      [] v.kind = "str" -> LeafScalar(i, "visit_str", v)
      [] v.kind \in {"Borrowed", "Owned", "ref"} -> Walk(v.elems[1], i)
      [] v.kind = "Display" -> Leaf(i, "visit_fmt", <<FmtArgs("{}", v.elems[1])>>)
      [] v.kind = "Debug" -> Leaf(i, "visit_fmt", <<FmtArgs("{:?}", v.elems[1])>>)
      [] v.kind \in {"slice", "Vec", "LinkedList", "VecDeque", "BinaryHeap"} ->
            WalkBracket("open_list", "close_list", FALSE, BorrowedItems(v.elems), i)
      [] v.kind \in {"HashSet", "BTreeSet"} ->
            WalkBracket("open_tuple", "close_tuple", FALSE, BorrowedItems(v.elems), i)
      [] v.kind \in {"HashMap", "BTreeMap"} ->
            WalkBracket("open_map", "close_map", TRUE,
                        [k \in 1..Len(v.elems) |-> BorrowedPairs(v.elems)[k].elems], i)
      [] v.kind = "WithVisit" /\ v.ty = "visit_list" ->
            WalkBracket("open_list", "close_list", FALSE, v.elems, i)
      [] v.kind = "WithVisit" /\ v.ty = "visit_tuple" ->
            WalkBracket("open_tuple", "close_tuple", FALSE, v.elems, i)
      [] v.kind = "WithVisit" /\ v.ty = "visit_map" ->
            WalkBracket("open_map", "close_map", TRUE,
                        [k \in 1..Len(v.elems) |-> v.elems[k].elems], i)
      [] v.kind = "WithVisit" /\ v.ty = "visit_struct" ->
            LET n == Leaf(i, "named_type", <<Str(v.s)>>)
            IN  IF n.r = "Mismatch" THEN n
                ELSE WalkBracket("open_struct", "close_struct", TRUE,
                                 [k \in 1..Len(v.elems) |->
                                    <<Borrowed(Str(v.elems[k].s)), v.elems[k].elems[1]>>],
                                 i + 1)
      [] v.kind = "WithVisit" /\ v.ty = "visit_tuple_struct" ->
            LET n == Leaf(i, "named_type", <<Str(v.s)>>)
            IN  IF n.r = "Mismatch" THEN n
                ELSE WalkBracket("open_tuple", "close_tuple", FALSE, v.elems, i + 1)

\* The finished traversal made the calls of a visit of v and returned its
\* result.
SameAsVisiting(v) == Walk(v, 1) = Walked(Len(calls) + 1, ret)

(***************************************************************************)
(* C11.  The carrier adds nothing to the visit it wraps.                   *)
(***************************************************************************)
TopIsFmt == top.kind \in {"Display", "Debug"}
TopIsWrapper == top.kind \in {"Borrowed", "Owned"}

\* C11: Value::visit on a Display or Debug carrier makes one call, visit_fmt
\* with the payload and its template, and returns what that call returned;
\* on a Borrowed or Owned carrier, one made by with_visit included, it makes
\* the calls of the wrapped Visitable's visit and returns its result.
C11_CarrierDispatch ==
    /\ TopIsFmt /\ Done =>
         /\ Len(calls) = 1
         /\ SigOf(calls[1]) =
              Sig("visit_fmt",
                  <<FmtArgs(IF top.kind = "Display" THEN "{}" ELSE "{:?}", top.elems[1])>>)
         /\ ret = calls[1].ok
    /\ TopIsWrapper /\ Done => SameAsVisiting(top.elems[1])

\* An Owned carrier made by with_visit returned the error of its third call.
C11_Witness ==
    /\ Done
    /\ top.kind = "Owned"
    /\ top.elems[1].kind = "WithVisit"
    /\ Len(calls) >= 3
    /\ calls[Len(calls)].ok = "Err"
    /\ ret = "Err"

(***************************************************************************)
(* C12.  visit_list and visit_tuple are fail-fast, through any nesting.    *)
(***************************************************************************)
TopIsListOrTuple ==
    \/ TopIsHelper("visit_list")
    \/ TopIsHelper("visit_tuple")
    \/ Core(top).kind \in
         {"slice", "Vec", "LinkedList", "VecDeque", "BinaryHeap", "HashSet", "BTreeSet"}

\* A call failed whose error is returned to the helper that made it, or to
\* the one whose element made it: any but named_type.
Failed(cs) == \E i \in 1..Len(cs) : cs[i].ok = "Err" /\ cs[i].m # "named_type"

FailFastNestedState ==
    TopIsListOrTuple /\ Done /\ Failed(calls) =>
        /\ ret = "Err"
        /\ \A i \in 1..Len(calls) :
             calls[i].m \in Closes /\ calls[i].lvl = 1 => calls[i].ok = "Err"

FailFastNestedStep == TopIsListOrTuple /\ Failed(calls) => Len(calls') = Len(calls)

\* C12: in a traversal that starts with visit_list or visit_tuple, once a
\* call has failed (open_list or open_tuple, or anything in the visit of an
\* element, however deep) no further call is made on the visitor: no later
\* element is visited, no inner or enclosing bracket is closed (the
\* top-level bracket is closed only when the failed call is that close), and
\* the top-level call returns the error.
C12_FailFastNested == []FailFastNestedState /\ [][FailFastNestedStep]_vars

\* The first element of the first inner list failed: nothing was closed and
\* the second inner list was not visited.
C12_Witness ==
    /\ Done
    /\ Core(top).kind = "Vec"
    /\ Len(Core(top).elems) = 2
    /\ Core(top).elems[1].kind = "Vec"
    /\ Len(Core(top).elems[1].elems) = 2
    /\ Len(calls) = 3
    /\ calls[2].m = "open_list"
    /\ calls[3].m = "visit_int"
    /\ calls[3].ok = "Err"
    /\ ret = "Err"

(***************************************************************************)
(* C13.  Visiting a value again gives the same calls.                      *)
(***************************************************************************)
\* The value is built from scalars and the containers whose iteration order
\* is a function of their contents.
RECURSIVE Deterministic(_)
Deterministic(v) ==
    /\ v.kind \in {"scalar", "str", "slice", "Vec", "LinkedList", "VecDeque",
                   "BTreeMap", "BTreeSet", "entry", "ref", "Borrowed", "Owned"}
    /\ \A i \in 1..Len(v.elems) : Deterministic(v.elems[i])

\* C13: the calls of a traversal of a value built from slices, Vecs,
\* LinkedLists, VecDeques, BTreeMaps, BTreeSets and scalars, and its result,
\* are a function of the value behind the carrier and of the visitor's
\* answers (Walk), whichever carrier it is visited through; with a visitor
\* that never fails they are the sequence Expected gives for the value.  So
\* two visits of the value with visitors that respond alike make the same
\* calls.
C13_RepeatVisitDeterministic ==
    Deterministic(top) /\ Done =>
        /\ SameAsVisiting(Core(top))
        /\ AllOk(calls) => Sigs(calls) = Expected(Core(top))

\* An owned copy of a BTreeMap of two entries was visited to the end by a
\* visitor that visits keys and values.
C13_Witness ==
    /\ Done
    /\ top.kind = "Owned"
    /\ Core(top).kind = "BTreeMap"
    /\ Len(Core(top).elems) = 2
    /\ kvRecurse
    /\ AllOk(calls)
    /\ Len(calls) >= 8

(***************************************************************************)
(* C14.  The carrier, the adapters and the helpers make no error.          *)
(***************************************************************************)
\* C14: a finished traversal in which every call on the visitor returned Ok
\* returns Ok, whatever was visited (a carrier, a scalar, a string, a
\* sequence, map, set or heap, a reference, nested or not) and whichever
\* helper was called; a traversal that returns an error had a call on the
\* visitor that returned an error.
C14_NoSynthesizedError ==
    Done =>
        /\ AllOk(calls) => ret = "Ok"
        /\ ret = "Err" => SomeErr(calls)
        /\ ret \in Results

\* visit_tuple_struct over three carriers returned Ok after calls that all
\* returned Ok.
C14_Witness ==
    /\ Done
    /\ TopIsHelper("visit_tuple_struct")
    /\ Len(Core(top).elems) = 3
    /\ AllOk(calls)
    /\ Len(calls) >= 6
    /\ ret = "Ok"

(***************************************************************************)
(* C15.  References, borrowed carriers and Vec are transparent.            *)
(***************************************************************************)
\* C15: a finished visit of &v, and one of Value::borrowed(&v), made the
\* calls of a visit of v and returned its result; a finished visit of a Vec
\* made the calls of a visit of its slice and returned its result.
C15_TransparentWrappers ==
    Done =>
        /\ top.kind \in {"ref", "Borrowed"} => SameAsVisiting(top.elems[1])
        /\ Core(top).kind = "Vec" => SameAsVisiting(Container("slice", Core(top).elems))

\* A reference to a set of three was visited and the visit of its second
\* element failed.
C15_Witness ==
    /\ Done
    /\ top.kind = "ref"
    /\ Len(top.elems[1].elems) = 3
    /\ Len(calls) >= 3
    /\ calls[1].ok = "Ok"
    /\ calls[2].ok = "Ok"
    /\ calls[Len(calls)].ok = "Err"
    /\ ret = "Err"

OnlyKvInside(own, open, close) ==
    \A j \in 1..Len(own) :
        \/ own[j].m = "named_type" /\ j = 1
        \/ own[j].m = open /\ (j = 1 \/ (j = 2 /\ own[1].m = "named_type"))
        \/ own[j].m = "visit_kv" /\ \E i \in 1..(j - 1) : own[i].m = open
        \/ own[j].m = close /\ j = Len(own) /\ \E i \in 1..(j - 1) : own[i].m = open

KvCount(own) == Len(SelectSeq(own, LAMBDA c : c.m = "visit_kv"))

\* C17: visit_map calls open_map, visit_kv and close_map and nothing else,
\* visit_struct named_type, open_struct, visit_kv and close_struct and
\* nothing else, at any depth; what runs directly under either helper is the
\* visitor's visit_kv, never the visit of a key or a value; the top-level
\* helper's calls between its open and its close are visit_kv calls, one per
\* pair or field when no call fails.
C17_OnlyKvInsideBracket ==
    /\ \A k \in 1..(Len(stack) - 1) :
         stack[k].op \in {"visit_map", "visit_struct"} => stack[k + 1].op = "visit_kv"
    /\ \A i \in 1..Len(calls) :
         /\ calls[i].by = "visit_map" =>
              calls[i].m \in {"open_map", "visit_kv", "close_map"}
         /\ calls[i].by = "visit_struct" =>
              calls[i].m \in {"named_type", "open_struct", "visit_kv", "close_struct"}
         /\ calls[i].m = "visit_kv" => calls[i].by \in {"visit_map", "visit_struct"}
    /\ TopIsMap =>
         /\ OnlyKvInside(Own("visit_map"), "open_map", "close_map")
         /\ Done /\ AllOk(calls) => KvCount(Own("visit_map")) = Len(TopPairs)
    /\ TopIsHelper("visit_struct") =>
         /\ OnlyKvInside(Own("visit_struct"), "open_struct", "close_struct")
         /\ Done /\ AllOk(calls) => KvCount(Own("visit_struct")) = Len(TopFields)
    /\ ~kvRecurse /\ (TopIsMap \/ TopIsHelper("visit_struct")) =>
         \A i \in 1..Len(calls) : calls[i].lvl = 1

\* A struct of two fields was visited to the end by a visitor whose
\* visit_kv visits the field name and the value.
C17_Witness ==
    /\ Done
    /\ TopIsHelper("visit_struct")
    /\ Len(TopFields) = 2
    /\ kvRecurse
    /\ AllOk(calls)
    /\ KvCount(Own("visit_struct")) = 2
    /\ Len(calls) > Len(Own("visit_struct")) + 3

(***************************************************************************)
(* C18.  The default scalar methods under a visit_any that visits.         *)
(***************************************************************************)
\* C18: the visit of a scalar, with a visitor whose visit_any asks the value
\* it is given to describe itself, ends by returning a result: it never runs
\* out of stack.
C18_ScalarDispatchReturns == ret # "overflow"

\* With such a visitor and the scalar's method left at its default, no call
\* on the visitor ever returns.
DefaultDispatchNeverReturns ==
    anyRevisit /\ calls # <<>> /\ calls[1].m \notin overridden =>
        /\ \A i \in 1..Len(calls) : calls[i].ok = "pending"
        /\ ~(Done /\ ret \in Results)

(***************************************************************************)
(* C19.  No close for a bracket that failed to open or was aborted.        *)
(***************************************************************************)
\* The brackets that are open after the calls cs[i..], given those open
\* before (innermost last): an open_X that returned Ok opens one, a close_X
\* closes the innermost, which has to be an X (<<"unbalanced">> otherwise).
RECURSIVE StillOpen(_, _, _)
StillOpen(cs, i, open) ==
    IF i > Len(cs) THEN open
    ELSE IF cs[i].m \in Opens
         THEN StillOpen(cs, i + 1, IF cs[i].ok = "Ok" THEN Append(open, cs[i].m) ELSE open)
    ELSE IF cs[i].m \in Closes
         THEN IF open # <<>> /\ CloseOf(open[Len(open)]) = cs[i].m
              THEN StillOpen(cs, i + 1, SubSeq(open, 1, Len(open) - 1))
              ELSE <<"unbalanced">>
    ELSE StillOpen(cs, i + 1, open)

\* The call whose error ended the traversal: the last one that failed, a
\* named_type apart; 0 when there is none.
FailingCall ==
    LET F == {i \in 1..Len(calls) : calls[i].ok = "Err" /\ calls[i].m # "named_type"}
    IN  IF F = {} THEN 0 ELSE CHOOSE i \in F : \A j \in F : j <= i

\* The open_X of the helper that made the close_X at index i: its last
\* open_X before i from the same frame; 0 when there is none.
OpenOf(i) ==
    LET J == {j \in 1..(i - 1) :
                /\ calls[j].m \in Opens
                /\ CloseOf(calls[j].m) = calls[i].m
                /\ calls[j].by = calls[i].by
                /\ calls[j].lvl = calls[i].lvl}
    IN  IF J = {} THEN 0 ELSE CHOOSE j \in J : \A k \in J : k <= j

CountOf(m) == Cardinality({i \in 1..Len(calls) : calls[i].m = m})

\* C19: whenever a close_X has just been called, in any traversal, it came
\* from a helper whose own open_X returned Ok and after which no call (a
\* named_type apart, whose result is dropped) had failed, it closes the
\* innermost open bracket, and the close_X calls made so far do not
\* outnumber the open_X calls of their kind; a traversal that was aborted by
\* a call other than a close leaves open exactly the brackets that were open
\* when that call was made, and one aborted by a close those but the
\* innermost.
C19_NoCloseAfterAbort ==
    /\ calls # <<>> /\ calls[Len(calls)].m \in Closes =>
         LET i == Len(calls)
         IN  /\ OpenOf(i) # 0
             /\ \A k \in OpenOf(i)..(i - 1) :
                  calls[k].m # "named_type" => calls[k].ok = "Ok"
             /\ \A m \in Opens : CountOf(CloseOf(m)) <= CountOf(m)
             /\ StillOpen(calls, 1, <<>>) # <<"unbalanced">>
    /\ Done /\ ret = "Err" =>
         LET f == FailingCall
             before == StillOpen(SubSeq(calls, 1, f - 1), 1, <<>>)
         IN  /\ f # 0
             /\ StillOpen(calls, 1, <<>>) =
                  IF calls[f].m \in Closes THEN SubSeq(before, 1, Len(before) - 1)
                  ELSE before

\* A traversal was aborted two brackets deep after an inner bracket had been
\* opened and closed.
C19_Witness ==
    /\ Done
    /\ ret = "Err"
    /\ Len(StillOpen(calls, 1, <<>>)) = 2
    /\ \E i \in 1..Len(calls) : calls[i].m \in Closes
    /\ calls[FailingCall].m \notin Opens \cup Closes

(***************************************************************************)
(* C20.  An aborted traversal is the beginning of the successful one.      *)
(***************************************************************************)
\* The value with every BinaryHeap in it taken as the sequence of its
\* iter(): impl Visitable for BinaryHeap hands that to visit_list.
RECURSIVE HeapsAsLists(_)
HeapsAsLists(v) ==
    [v EXCEPT !.kind = IF @ = "BinaryHeap" THEN "VecDeque" ELSE @,
              !.elems = [i \in 1..Len(v.elems) |-> HeapsAsLists(v.elems[i])]]

\* The calls made on this value by this visitor when it never fails.
Successful == Expected(HeapsAsLists(top))

\* The failing call is a visit_kv of a visitor that visited the key and
\* the value, found nothing wrong there and then failed: what it called
\* comes after it.
FailedAfterChildren(f) ==
    /\ calls[f].m = "visit_kv"
    /\ kvRecurse
    /\ Len(calls) > f
    /\ \A i \in (f + 1)..Len(calls) :
         calls[i].lvl > calls[f].lvl /\ (calls[i].ok = "Err" => calls[i].m = "named_type")

\* C20: the calls of a finished traversal are the first calls of the
\* sequence the same value gets from the same visitor when it never fails:
\* all of them when no call but a named_type failed, and otherwise those up
\* to the failing call, which is the last call made (or, for a visit_kv that
\* fails after it visited its pair, the call before those it made itself);
\* the traversal then returns the error.
C20_AbortedIsPrefix ==
    Done =>
        /\ IsPrefix(Sigs(calls), Successful)
        /\ FailingCall = 0 => Sigs(calls) = Successful /\ ret = "Ok"
        /\ FailingCall # 0 =>
             /\ ret = "Err"
             /\ Len(calls) = FailingCall \/ FailedAfterChildren(FailingCall)

\* The fifth call or a later one failed, with three calls or more left that
\* the successful traversal would have made.
C20_Witness ==
    /\ Done
    /\ ret = "Err"
    /\ FailingCall = Len(calls)
    /\ Len(calls) >= 5
    /\ Len(Successful) >= Len(calls) + 3
    /\ calls[FailingCall].m \notin Opens \cup Closes

====
